---- MODULE Spec2Model ----
(***************************************************************************)
(* Model of qtabs/endofyear: src/endoy.py (parse_markdown, escape_latex,   *)
(* generate_latex_script, generate_latex_skills, compile_latex_to_pdf) and *)
(* src/create_documents.py (main).                                         *)
(*                                                                         *)
(* A Python str is a sequence of symbols.  A symbol is one character       *)
(* ("#", " ", "*", "\n", ...) or a whole word that the code never looks    *)
(* inside ("Mentee", "Notes", "textbackslash", ...).  A Python list is a   *)
(* sequence, a dict is a record, and None is the empty sequence <<>> with  *)
(* a present value v held as <<v>>.                                        *)
(***************************************************************************)
EXTENDS Naturals, Sequences, FiniteSets, TLC

VARIABLES
    content,             \* parse_markdown: the markdown_content argument
    lines,               \* parse_markdown: lines (endoy.py:45)
    idx,                 \* parse_markdown: position of the for loop in lines
    result,              \* parse_markdown: result / the parsed_data of the generators
    current_section,     \* parse_markdown: current_section (None = <<>>)
    current_subsection,  \* parse_markdown: current_subsection (None = <<>>)
    pc,                  \* where the program is
    role,                \* generate_latex_script: role of the last call (<<>> = none yet)
    latex,               \* latex_lines of the last generator call
    prev_latex,          \* latex_lines of the generate_latex_script call before it
    text,                \* escape_latex: the text argument
    escaped,             \* escape_latex: the returned string
    fs,                  \* the file system: absolute path -> what the file holds
    printed,             \* the messages print()ed so far, in order
    exit_status,         \* create_documents.main: None while running, <<code>> at exit
    main,                \* create_documents.main: its locals
    compile,             \* compile_latex_to_pdf: its locals and its return value
    stdout               \* sys.stdout: the non-ASCII characters its encoding has

\* The variables of the batch run and of compile_latex_to_pdf.
batch_vars == <<fs, printed, exit_status, main, compile, stdout>>

vars == <<content, lines, idx, result, current_section, current_subsection,
          pc, role, latex, prev_latex, text, escaped, batch_vars>>

(***************************************************************************)
(* Bounds of the model.                                                    *)
(***************************************************************************)
MaxLines == 4
MaxScriptLines == 4
MaxEdgeLines == 4
MaxTextLen == 3

(***************************************************************************)
(* Python str methods.                                                     *)
(***************************************************************************)
\* The characters str.strip() and str.rstrip() remove when called with no
\* argument, those with str.isspace(): tab, newline, U+000B, form feed, carriage
\* return, U+001C to U+001F, space, U+0085, U+00A0, U+1680 and, written by
\* their code points, the spaces and separators from U+2000 on.
Whitespace ==
    { "\t", "\n", "", "\f", "\r", "", "", "",
      "", " ", "", " ", " ", "U+2000", "U+2001", "U+2002",
      "U+2003", "U+2004", "U+2005", "U+2006", "U+2007", "U+2008", "U+2009", "U+200A",
      "U+2028", "U+2029", "U+202F", "U+205F", "U+3000" }

RECURSIVE rstrip(_)
\* s.rstrip()
rstrip(s) ==
    IF s # <<>> /\ s[Len(s)] \in Whitespace
    THEN rstrip(SubSeq(s, 1, Len(s) - 1))
    ELSE s

RECURSIVE lstrip(_)
\* s.lstrip(), the left half of s.strip()
lstrip(s) ==
    IF s # <<>> /\ Head(s) \in Whitespace THEN lstrip(Tail(s)) ELSE s

\* s.strip()
strip(s) == rstrip(lstrip(s))

RECURSIVE rstrip_star(_)
\* s.rstrip('*')
rstrip_star(s) ==
    IF s # <<>> /\ s[Len(s)] = "*"
    THEN rstrip_star(SubSeq(s, 1, Len(s) - 1))
    ELSE s

\* s.endswith('*')
endswith_star(s) == s # <<>> /\ s[Len(s)] = "*"

\* s.startswith(p)
startswith(s, p) == Len(s) >= Len(p) /\ SubSeq(s, 1, Len(p)) = p

\* s[n:]
slice_from(s, n) == SubSeq(s, n + 1, Len(s))

RECURSIVE split_nl(_, _)
\* s.split('\n'), with acc the piece being read
split_nl(s, acc) ==
    IF s = <<>> THEN <<acc>>
    ELSE IF Head(s) = "\n" THEN <<acc>> \o split_nl(Tail(s), <<>>)
    ELSE split_nl(Tail(s), Append(acc, Head(s)))

RECURSIVE replace(_, _, _)
\* s.replace(char, escaped_seq): every occurrence of the one-character char
replace(s, char, escaped_seq) ==
    IF s = <<>> THEN <<>>
    ELSE (IF Head(s) = char THEN escaped_seq ELSE <<Head(s)>>)
         \o replace(Tail(s), char, escaped_seq)

RECURSIVE join_nl(_)
\* '\n'.join(ls)
join_nl(ls) ==
    IF ls = <<>> THEN <<>>
    ELSE IF Len(ls) = 1 THEN ls[1]
    ELSE ls[1] \o <<"\n">> \o join_nl(Tail(ls))

RECURSIVE Digits(_)
\* str(n) of an f-string: the decimal digits of n
Digits(n) ==
    LET d == <<"0", "1", "2", "3", "4", "5", "6", "7", "8", "9">>
    IN  IF n < 10 THEN <<d[n + 1]>> ELSE Digits(n \div 10) \o <<d[(n % 10) + 1]>>

(***************************************************************************)
(* parse_markdown (endoy.py:19-108).                                       *)
(***************************************************************************)
None == <<>>

\* lines = markdown_content.strip().split('\n')
split_lines(markdown_content) == split_nl(strip(markdown_content), <<>>)

\* The parser's locals as one record.
ParserState(res, sec, sub) ==
    [result |-> res, current_section |-> sec, current_subsection |-> sub]

\* current_section['subsections'].append(current_subsection)
AppendSubsection(sec, sub) ==
    [sec EXCEPT !.subsections = Append(@, sub)]

\* Lines 64-65 and 103-104: save the open subsection into the open section.
FlushSubsection(st) ==
    IF st.current_subsection # None /\ st.current_section # None
    THEN [st EXCEPT !.current_section =
              <<AppendSubsection(st.current_section[1], st.current_subsection[1])>>]
    ELSE st

\* Lines 68-69 and 105-106: save the open section into the result.
FlushSection(st) ==
    IF st.current_section # None
    THEN [st EXCEPT !.result.sections = Append(@, st.current_section[1])]
    ELSE st

\* Lines 58-59: the '# ' branch.
OnTitle(st, line) ==
    [st EXCEPT !.result.title = strip(slice_from(line, 2))]

\* OnSection without lines 64-65: the open subsection is not saved.
OnSection_DropOpenSubsection(st, line) ==
    LET flushed == FlushSection(st)
    IN  [flushed EXCEPT
            !.current_section = <<[header |-> strip(slice_from(line, 3)),
                                   subsections |-> <<>>,
                                   items |-> <<>>]>>,
            !.current_subsection = None]

\* OnSection without line 77: the subsection of the previous section stays open.
OnSection_KeepOpenSubsection(st, line) ==
    LET flushed == FlushSection(FlushSubsection(st))
    IN  [flushed EXCEPT
            !.current_section = <<[header |-> strip(slice_from(line, 3)),
                                   subsections |-> <<>>,
                                   items |-> <<>>]>>]

\* Lines 62-77: the '## ' branch.
OnSection(st, line) ==
    LET flushed == FlushSection(FlushSubsection(st))
    IN  [flushed EXCEPT
            !.current_section = <<[header |-> strip(slice_from(line, 3)),
                                   subsections |-> <<>>,
                                   items |-> <<>>]>>,
            !.current_subsection = None]

\* OnSubsection without the test of line 81: a subsection opens with no section.
OnSubsection_NoSectionTest(st, line) ==
    LET saved == FlushSubsection(st)
    IN  [saved EXCEPT
            !.current_subsection = <<[header |-> strip(slice_from(line, 4)),
                                      items |-> <<>>]>>]

\* Lines 80-90: the '### ' branch.
OnSubsection(st, line) ==
    IF st.current_section # None
    THEN LET saved ==
                 IF st.current_subsection # None
                 THEN [st EXCEPT !.current_section =
                           <<AppendSubsection(st.current_section[1],
                                              st.current_subsection[1])>>]
                 ELSE st
         IN  [saved EXCEPT
                 !.current_subsection = <<[header |-> strip(slice_from(line, 4)),
                                           items |-> <<>>]>>]
    ELSE st

\* Lines 93-100: the '- ' branch.
OnBullet(st, line) ==
    LET item_text == strip(slice_from(line, 2))
    IN  IF st.current_subsection # None
        THEN [st EXCEPT !.current_subsection =
                  <<[st.current_subsection[1] EXCEPT !.items = Append(@, item_text)]>>]
        ELSE IF st.current_section # None
        THEN [st EXCEPT !.current_section =
                  <<[st.current_section[1] EXCEPT !.items = Append(@, item_text)]>>]
        ELSE st

\* The if/elif chain of lines 58-93 on the rstripped line: which branch runs.
LineKind(line) ==
    IF startswith(line, <<"#", " ">>) THEN "title"
    ELSE IF startswith(line, <<"#", "#", " ">>) THEN "section"
    ELSE IF startswith(line, <<"#", "#", "#", " ">>) THEN "subsection"
    ELSE IF startswith(line, <<"-", " ">>) THEN "bullet"
    ELSE "other"

\* One iteration of the for loop (lines 54-100).
ParseLine(st, raw) ==
    LET line == rstrip(raw)
        kind == LineKind(line)
    IN  CASE kind = "title" -> OnTitle(st, line)
          [] kind = "section" -> OnSection(st, line)
          [] kind = "subsection" -> OnSubsection(st, line)
          [] kind = "bullet" -> OnBullet(st, line)
          [] OTHER -> st

\* Lines 46-52: the locals before the loop.
InitialParserState ==
    ParserState([title |-> <<>>, sections |-> <<>>], None, None)

\* Lines 102-106: after the loop.
FinishParse(st) == FlushSection(FlushSubsection(st))

RECURSIVE ParseLines(_, _)
\* The for loop over ls from state st.
ParseLines(st, ls) ==
    IF ls = <<>> THEN st ELSE ParseLines(ParseLine(st, Head(ls)), Tail(ls))

\* parse_markdown(markdown_content): the returned result.
parse_markdown(markdown_content) ==
    FinishParse(ParseLines(InitialParserState, split_lines(markdown_content))).result

(***************************************************************************)
(* escape_latex (endoy.py:345-372).                                        *)
(***************************************************************************)
\* The replacements dict, in insertion order (lines 355-366).
replacements ==
    << <<"&", <<"\\", "&">> >>,
       <<"%", <<"\\", "%">> >>,
       <<"$", <<"\\", "$">> >>,
       <<"#", <<"\\", "#">> >>,
       <<"_", <<"\\", "_">> >>,
       <<"{", <<"\\", "{">> >>,
       <<"}", <<"\\", "}">> >>,
       <<"~", <<"\\", "textasciitilde", "{", "}">> >>,
       <<"^", <<"\\", "textasciicircum", "{", "}">> >>,
       <<"\\", <<"\\", "textbackslash", "{", "}">> >> >>

\* escape_rtf's replacements dict, in insertion order (endoy.py:142-146).
rtf_replacements ==
    << <<"\\", <<"\\", "\\">> >>,
       <<"{", <<"\\", "{">> >>,
       <<"}", <<"\\", "}">> >> >>

RECURSIVE replace_all(_, _)
\* Lines 368-370: result = result.replace(char, escaped) for each pair in order.
replace_all(s, pairs) ==
    IF pairs = <<>> THEN s
    ELSE replace_all(replace(s, Head(pairs)[1], Head(pairs)[2]), Tail(pairs))

\* escape_latex(text)
escape_latex(t) == replace_all(t, replacements)

\* escape_rtf(text) (endoy.py:131-152): the same loop over rtf_replacements.
escape_rtf(t) == replace_all(t, rtf_replacements)

(***************************************************************************)
(* The lines of a generated LaTeX document.  A line made of fixed text is  *)
(* kept as that text (raw); a line the code builds from data keeps the     *)
(* data it embeds: a label (a role name), a text (escaped user text), a    *)
(* name (a field or skill name) and the marker names of a skills row.      *)
(***************************************************************************)
Line(k, label, t, name) ==
    [k |-> k, raw |-> "", label |-> label, text |-> t, name |-> name,
     markers |-> <<>>]

Raw(literal) ==
    [k |-> "raw", raw |-> literal, label |-> <<>>, text |-> <<>>, name |-> <<>>,
     markers |-> <<>>]

Blank == Raw("")

(***************************************************************************)
(* generate_latex_script (endoy.py:155-326).                               *)
(***************************************************************************)
Mentee == <<"Mentee">>
Mentor == <<"Mentor">>
Both == <<"Both">>
Roles == {Mentee, Mentor}

\* OtherRole with the two names exchanged: the rendered role itself.
OtherRole_Same(r) == IF r = Mentee THEN Mentee ELSE Mentor

\* Lines 197, 268, 313: 'Mentor' if role == 'Mentee' else 'Mentee'.
OtherRole(r) == IF r = Mentee THEN Mentor ELSE Mentee

\* Lines 166-180.
ScriptPreamble ==
    << Raw("\\documentclass[9pt,a4paper]{article}"),
       Raw("\\usepackage[margin=1in]{geometry}"),
       Raw("\\usepackage{hyperref}"),
       Raw("\\usepackage{xcolor}"),
       Raw("\\usepackage{needspace}"),
       Blank,
       Raw("% Configure form field appearance"),
       Raw("\\hypersetup{"),
       Raw("    pdfborder={0 0 0}"),
       Raw("}"),
       Blank,
       Raw("\\begin{document}"),
       Blank >>

\* Lines 183-190: the title with the role, when there is a title.
TitleBlock(parsed_data, r) ==
    IF parsed_data.title # <<>>
    THEN << Raw("\\begin{center}"),
            Line("title", r, escape_latex(parsed_data.title), <<>>),
            Raw("\\end{center}"),
            Blank,
            Raw("\\vspace{0.5cm}"),
            Blank >>
    ELSE <<>>

\* Lines 193-204: the instructions; the line of line 197 names the other role.
Instructions(r) ==
    << Raw("\\noindent\\textbf{Instructions:}"),
       Blank,
       Raw("\\vspace{0.2cm}"),
       Blank,
       Line("instructions", OtherRole(r), <<>>, <<>>),
       Blank,
       Raw("\\vspace{0.2cm}"),
       Blank,
       Raw("\\noindent\\textbf{Preparation:} Please complete this form \\textit{before} the meeting. Thoughtful preparation is essential---take time to reflect deeply on each question. Your honest, considered responses will make the meeting more productive and meaningful for both parties."),
       Blank,
       Raw("\\vspace{0.5cm}"),
       Blank >>

\* Lines 211-216: the section header.
SectionHeader(section) ==
    << Raw("\\needspace{6cm}"),
       Line("section", <<>>, escape_latex(section.header), <<>>),
       Blank,
       Raw("\\vspace{0.3cm}"),
       Blank >>

\* ItemText without rstrip('*').
ItemText_KeepStar(item) == escape_latex(strip(item))

\* item_text = escape_latex(item.rstrip('*').strip()) (lines 234, 245, 286, 315).
ItemText(item) == escape_latex(strip(rstrip_star(item)))

\* field_name = f'field{field_counter}' (lines 255, 269, 296).
FieldName(field_counter) == <<"field">> \o Digits(field_counter)

\* The \TextField line of lines 262, 276, 305.
TextField(field_name) == Line("TextField", <<>>, <<>>, field_name)

\* Lines 235-238, 249-252, 290-293: an action item, in italics, no field.
ActionItem(item) ==
    << Line("textit", <<>>, ItemText(item), <<>>),
       Blank,
       Raw("\\vspace{0.3cm}"),
       Blank >>

\* BothItem without the second field_counter += 1 (line 270): the next item
\* repeats the name of this item's second field.
BothItem_OneIncrement(item, r, field_counter) ==
    IF endswith_star(item)
    THEN [lines |-> ActionItem(item), field_counter |-> field_counter]
    ELSE [lines |->
              << Raw("\\needspace{4cm}"),
                 Line("question", <<>>, ItemText(item), <<>>),
                 Blank,
                 Raw("\\vspace{0.3em}"),
                 TextField(FieldName(field_counter)),
                 Blank,
                 Raw("\\vspace{0.2cm}"),
                 Blank,
                 Raw("\\needspace{4cm}"),
                 Line("gray", OtherRole(r), ItemText(item), <<>>),
                 Blank,
                 Raw("\\vspace{0.3em}"),
                 TextField(FieldName(field_counter + 1)),
                 Blank,
                 Raw("\\vspace{0.4cm}"),
                 Blank >>,
          field_counter |-> field_counter + 1]

\* Lines 244-279: one item of a Both subsection; out is [lines, field_counter].
BothItem(item, r, field_counter) ==
    IF endswith_star(item)
    THEN [lines |-> ActionItem(item), field_counter |-> field_counter]
    ELSE [lines |->
              << Raw("\\needspace{4cm}"),
                 Line("question", <<>>, ItemText(item), <<>>),
                 Blank,
                 Raw("\\vspace{0.3em}"),
                 TextField(FieldName(field_counter)),
                 Blank,
                 Raw("\\vspace{0.2cm}"),
                 Blank,
                 Raw("\\needspace{4cm}"),
                 Line("gray", OtherRole(r), ItemText(item), <<>>),
                 Blank,
                 Raw("\\vspace{0.3em}"),
                 TextField(FieldName(field_counter + 1)),
                 Blank,
                 Raw("\\vspace{0.4cm}"),
                 Blank >>,
          field_counter |-> field_counter + 2]

\* MyRoleItem without the test of line 288: an action item gets a field too.
MyRoleItem_FieldForAction(item, field_counter) ==
    [lines |->
         << Raw("\\needspace{4cm}"),
            Line("question", <<>>, ItemText(item), <<>>),
            Blank,
            Raw("\\vspace{0.3em}"),
            TextField(FieldName(field_counter)),
            Blank,
            Raw("\\vspace{0.4cm}"),
            Blank >>,
     field_counter |-> field_counter + 1]

\* Lines 285-308: one item of a subsection of the rendered role.
MyRoleItem(item, field_counter) ==
    IF endswith_star(item)
    THEN [lines |-> ActionItem(item), field_counter |-> field_counter]
    ELSE [lines |->
              << Raw("\\needspace{4cm}"),
                 Line("question", <<>>, ItemText(item), <<>>),
                 Blank,
                 Raw("\\vspace{0.3em}"),
                 TextField(FieldName(field_counter)),
                 Blank,
                 Raw("\\vspace{0.4cm}"),
                 Blank >>,
          field_counter |-> field_counter + 1]

\* Lines 315-319: one item of a subsection of the other role.
OtherRoleItem(item, r) ==
    << Line("gray", OtherRole(r), ItemText(item), <<>>),
       Blank,
       Raw("\\vspace{0.15cm}"),
       Blank >>

\* Lines 223-238, 241, 282, 311: which branch of the if/elif chain a subsection takes.
Classify(subsection_header, r) ==
    LET header_is_action == endswith_star(subsection_header)
        header_base == rstrip_star(subsection_header)
        is_both == header_base = Both
        is_my_role == header_base = r
        is_other_role == header_base \in {Mentee, Mentor} /\ ~is_my_role /\ ~is_both
    IN  IF header_is_action THEN "action"
        ELSE IF is_both THEN "both"
        ELSE IF is_my_role THEN "my_role"
        ELSE IF is_other_role THEN "other_role"
        ELSE "none"

\* The body of the for-item loop of the branch, on one item.
RenderItem(branch, item, r, field_counter) ==
    CASE branch = "action" ->
           [lines |-> ActionItem(item), field_counter |-> field_counter]
      [] branch = "both" -> BothItem(item, r, field_counter)
      [] branch = "my_role" -> MyRoleItem(item, field_counter)
      [] branch = "other_role" ->
           [lines |-> OtherRoleItem(item, r), field_counter |-> field_counter]

RECURSIVE RenderItems(_, _, _, _)
\* for item in subsection['items'] of one branch, from out = [lines, field_counter].
RenderItems(branch, items, r, out) ==
    IF items = <<>> THEN out
    ELSE LET one == RenderItem(branch, Head(items), r, out.field_counter)
         IN  RenderItems(branch, Tail(items), r,
                         [lines |-> out.lines \o one.lines,
                          field_counter |-> one.field_counter])

\* Lines 219-319: one subsection.
RenderSubsection(subsection, r, out) ==
    LET branch == Classify(subsection.header, r)
    IN  IF branch = "none" THEN out
        ELSE RenderItems(branch, subsection.items, r, out)

RECURSIVE RenderSubsections(_, _, _)
\* for subsection in section['subsections'].
RenderSubsections(subsections, r, out) ==
    IF subsections = <<>> THEN out
    ELSE RenderSubsections(Tail(subsections), r,
                           RenderSubsection(Head(subsections), r, out))

RECURSIVE RenderSections_WithDirectItems(_, _, _)
\* RenderSections that also renders a section's own items, as the reader's items.
RenderSections_WithDirectItems(sections, r, out) ==
    IF sections = <<>> THEN out
    ELSE LET section == Head(sections)
             headed == [out EXCEPT !.lines = @ \o SectionHeader(section)]
             direct == RenderItems("my_role", section.items, r, headed)
             body == RenderSubsections(section.subsections, r, direct)
             closed == [body EXCEPT !.lines = @ \o <<Raw("\\vspace{0.3cm}"), Blank>>]
         IN  RenderSections_WithDirectItems(Tail(sections), r, closed)

RECURSIVE RenderSections(_, _, _)
\* Lines 209-322: for section in parsed_data['sections'].
RenderSections(sections, r, out) ==
    IF sections = <<>> THEN out
    ELSE LET section == Head(sections)
             headed == [out EXCEPT !.lines = @ \o SectionHeader(section)]
             body == RenderSubsections(section.subsections, r, headed)
             closed == [body EXCEPT !.lines = @ \o <<Raw("\\vspace{0.3cm}"), Blank>>]
         IN  RenderSections(Tail(sections), r, closed)

\* Line 206: field_counter = 1.
FirstFieldCounter == 1

\* generate_latex_script(parsed_data, role): latex_lines, which the code returns
\* joined by '\n'.
generate_latex_script(parsed_data, r) ==
    LET head == ScriptPreamble \o TitleBlock(parsed_data, r) \o Instructions(r)
        body == RenderSections(parsed_data.sections, r,
                               [lines |-> head, field_counter |-> FirstFieldCounter])
    IN  body.lines \o <<Raw("\\end{document}")>>

(***************************************************************************)
(* generate_latex_skills (endoy.py:375-523).                               *)
(***************************************************************************)
\* Lines 385-436: the fixed head of the assessment; the \ratingcircle macro
\* (lines 397-399) names its \CheckBox #1_#2.
SkillsPreamble ==
    << Raw("\\documentclass[9pt,a4paper]{article}"),
       Raw("\\usepackage[top=0.8in, bottom=0.8in, left=1in, right=1in]{geometry}"),
       Raw("\\usepackage{array}"),
       Raw("\\usepackage{amssymb}"),
       Raw("\\usepackage{pifont}"),
       Raw("\\usepackage{tikz}"),
       Raw("\\usepackage{hyperref}"),
       Raw("\\pagestyle{empty}"),
       Blank,
       Raw("% Define rating and checkbox commands as clickable form fields"),
       Raw("% Rating squares: each gets unique name for independent clicking"),
       Raw("\\newcommand{\\ratingcircle}[2]{%"),
       Raw("  \\raisebox{-0ex}{\\CheckBox[name=#1_#2,width=1.2ex,height=1.2ex,bordercolor={0 0 0},borderstyle=S,borderwidth=1]{}}%"),
       Raw("}"),
       Raw("% Target checkbox - static empty circle (no clicking behavior needed)"),
       Raw("\\newcommand{\\checkbox}[1]{\\raisebox{-0.6ex}{\\tikz\\draw[very thick] (0,0) circle (1.2ex);}}"),
       Raw("\\setlength{\\parskip}{0pt}"),
       Raw("\\setlength{\\parindent}{0pt}"),
       Blank,
       Raw("\\begin{document}"),
       Blank,
       Raw("\\begin{center}"),
       Raw("{\\Large\\bfseries Assessment of skills for next year planning}"),
       Raw("\\end{center}"),
       Blank,
       Raw("\\vspace{0.2cm}"),
       Blank,
       Raw("% Header with labels - 4-column with explicit spacing: text | ability (5 boxes) | importance (3 boxes) | target checkbox"),
       Raw("\\noindent"),
       Raw("\\begin{tabular}{@{}p{\\dimexpr\\textwidth-2.4cm-1.3cm-1cm-3.5em-10pt\\relax}"),
       Raw("                @{\\hspace{1em}}>{\\centering\\arraybackslash}p{2.4cm}"),
       Raw("                @{\\hspace{2.5em}}>{\\centering\\arraybackslash}p{1.3cm}"),
       Raw("                @{\\hspace{1em}}>{\\centering\\arraybackslash}p{1cm}@{}}"),
       Raw("\t& {\\small current ability } & {\\small priority} & \\\\"),
       Raw("\t& \\begin{tabular*}{2.4cm}{@{}l@{\\extracolsep{\\fill}}r@{}}"),
       Raw("    \\small poor & \\small great"),
       Raw("  \\end{tabular*}"),
       Raw("  & \\begin{tabular*}{1.3cm}{@{}l@{\\extracolsep{\\fill}}r@{}}"),
       Raw("    \\small low & \\small high"),
       Raw("  \\end{tabular*} & {\\small target} \\\\"),
       Raw("\\end{tabular}"),
       Blank,
       Blank,
       Blank,
       Raw("\\vspace{-2em}"),
       Blank,
       Raw("{\\small \\textcolor{gray}{(Check the back page for instructions)}}"),
       Blank,
       Raw("\\vspace{1em}") >>

\* Lines 498-521: the fixed instructions page and the end of the document.
SkillsInstructions ==
    << Raw("\\newpage"),
       Blank,
       Raw("\\section*{Instructions}"),
       Blank,
       Raw("\\noindent This document is designed to help you identify key transversal academic skills that you might want to strengthen during the next year. Fill it in with as much honesty as you can. You will revise it with your mentor afterwards, so do not worry too much about being objective---rather, try to write what is most representative of your current understanding. There will be plenty of opportunities to make amendments."),
       Blank,
       Raw("\\vspace{0.5cm}"),
       Blank,
       Raw("\\noindent First, go through each of the items and use the first column of checkboxes to self-report your perceived degree of ability at each of them. Use the low end for an absolute lack of ability, and the high end for abilities that are as developed as you would like them to be at the end of your PhD. At this stage, ignore the other two columns."),
       Blank,
       Raw("\\vspace{0.5cm}"),
       Blank,
       Raw("\\noindent Second, evaluate the priority of each of the skills, independently of your current level of ability. A skill is a priority when you deem it generally important and/or it is relevant for your current project. A skill that you do not think you will have use for in a mid-term horizon probably does not deserve a high priority."),
       Blank,
       Raw("\\vspace{0.5cm}"),
       Blank,
       Raw("\\noindent Last, select a set of 2--10 skills you would like to target as learning objectives for the next year. Try to choose those for which you have low ability and high priority, but that also seem exciting to you at this point. Feel free to add additional skills that you deem important but are not included in this document."),
       Blank,
       Raw("\\vspace{0.5cm}"),
       Blank,
       Raw("\\noindent Bring this list with you to the end-of-the-year meeting, where you will have the opportunity to revise and refine the list of priorities for the incoming year."),
       Blank,
       Raw("\\end{document}") >>

\* skill_name = f'skill{skill_counter}' (line 458).
SkillName(skill_counter) == <<"skill">> \o Digits(skill_counter)

\* \ratingcircle{<skill_name>_<scale>}{<n>} (lines 478-487): by the macro of
\* line 398 the check box is named <skill_name>_<scale>_<n>.
RatingCircle(skill_name, scale, n) == skill_name \o <<"_", scale, "_", n>>

\* \checkbox{<skill_name>_target} (line 489).
TargetBox(skill_name) == skill_name \o <<"_", "target">>

\* Lines 475-490: the marker names of one row, in the order written.
RowMarkers(skill_name) ==
    << RatingCircle(skill_name, "ability", "1"),
       RatingCircle(skill_name, "ability", "2"),
       RatingCircle(skill_name, "ability", "3"),
       RatingCircle(skill_name, "ability", "4"),
       RatingCircle(skill_name, "ability", "5"),
       RatingCircle(skill_name, "importance", "1"),
       RatingCircle(skill_name, "importance", "2"),
       RatingCircle(skill_name, "importance", "3"),
       TargetBox(skill_name) >>

\* Lines 457-493: one item: the tabular head (4 lines), the row, the tabular end.
SkillRow(item, skill_counter) ==
    << Raw("\\noindent\\begin{tabular}{@{}p{\\dimexpr\\textwidth-2.4cm-1.3cm-1cm-3.5em-10pt\\relax}"),
       Raw("                @{\\hspace{1em}}>{\\arraybackslash}p{2.4cm}"),
       Raw("                @{\\hspace{2.5em}}>{\\arraybackslash}p{1.3cm}"),
       Raw("                @{\\hspace{1em}}>{\\centering\\arraybackslash}p{1cm}@{}}"),
       [k |-> "row", raw |-> "", label |-> <<>>, text |-> escape_latex(item),
        name |-> SkillName(skill_counter),
        markers |-> RowMarkers(SkillName(skill_counter))],
       Raw("\\end{tabular}\\\\[0.02cm]") >>

RECURSIVE SubsectionItems(_)
\* Lines 452-453: items.extend(subsection.get('items', [])) for each subsection.
SubsectionItems(subsections) ==
    IF subsections = <<>> THEN <<>>
    ELSE (IF "items" \in DOMAIN Head(subsections)
          THEN Head(subsections).items ELSE <<>>)
         \o SubsectionItems(Tail(subsections))

\* Lines 446-453: the items of a section.
SectionItems(section) ==
    IF "items" \in DOMAIN section THEN section.items
    ELSE IF "subsections" \in DOMAIN section
    THEN SubsectionItems(section.subsections)
    ELSE <<>>

RECURSIVE SkillRows_NoIncrement(_, _)
\* SkillRows without skill_counter += 1 (line 459).
SkillRows_NoIncrement(items, out) ==
    IF items = <<>> THEN out
    ELSE SkillRows_NoIncrement(Tail(items),
                   [lines |-> out.lines \o SkillRow(Head(items), out.skill_counter),
                    skill_counter |-> out.skill_counter])

RECURSIVE SkillRows(_, _)
\* Lines 456-493: for item in items, from out = [lines, skill_counter].
SkillRows(items, out) ==
    IF items = <<>> THEN out
    ELSE SkillRows(Tail(items),
                   [lines |-> out.lines \o SkillRow(Head(items), out.skill_counter),
                    skill_counter |-> out.skill_counter + 1])

RECURSIVE SkillSections(_, _)
\* Lines 440-495: for section in parsed_data['sections'].
SkillSections(sections, out) ==
    IF sections = <<>> THEN out
    ELSE LET section == Head(sections)
             headed == [out EXCEPT !.lines =
                            Append(@, Line("skills_section", <<>>,
                                           escape_latex(section.header), <<>>))]
             rows == SkillRows(SectionItems(section), headed)
         IN  SkillSections(Tail(sections), [rows EXCEPT !.lines = Append(@, Blank)])

\* Line 439: skill_counter = 1.
FirstSkillCounter == 1

\* generate_latex_skills(parsed_data): latex_lines, returned joined by '\n'.
generate_latex_skills(parsed_data) ==
    SkillSections(parsed_data.sections,
                  [lines |-> SkillsPreamble, skill_counter |-> FirstSkillCounter]).lines
    \o SkillsInstructions

(***************************************************************************)
(* Inputs.                                                                 *)
(***************************************************************************)
RECURSIVE SeqsUpTo(_, _)
\* The sequences over S of length at most n.
SeqsUpTo(S, n) ==
    IF n = 0 THEN {<<>>}
    ELSE LET shorter == SeqsUpTo(S, n - 1)
         IN  shorter \cup {Append(s, x) : s \in {t \in shorter : Len(t) = n - 1}, x \in S}

\* Markdown lines of the parser's inputs: the four prefixes, a heading with
\* spaces around its text, a bullet ending in '*', a heading prefix with no
\* text, an indented bullet and an empty line.
ParseLineSet ==
    { <<"#", " ", "T">>,
      <<"#", "#", " ", "A">>,
      <<"#", "#", " ", " ", "B", " ">>,
      <<"#", "#", "#", " ", "Mentee">>,
      <<"-", " ", "x">>,
      <<"-", " ", "y", "*">>,
      <<"#", "#", " ">>,
      <<" ", "-", " ", "z">>,
      <<>> }

\* "# Title\n## Sec\n### Mentee\n- Q1\n### Both\n- Q2*\n- Q3\n"
ScriptExample ==
    join_nl(<< <<"#", " ", "Title">>,
               <<"#", "#", " ", "Sec">>,
               <<"#", "#", "#", " ", "Mentee">>,
               <<"-", " ", "Q1">>,
               <<"#", "#", "#", " ", "Both">>,
               <<"-", " ", "Q2", "*">>,
               <<"-", " ", "Q3">>,
               <<>> >>)

\* "# T\n## Skills\n- Communication\n- Writing\n"
SkillsExample ==
    join_nl(<< <<"#", " ", "T">>,
               <<"#", "#", " ", "Skills">>,
               <<"-", " ", "Communication">>,
               <<"-", " ", "Writing">>,
               <<>> >>)

\* "## S1\n### Mentee\n- a\n- b\n## S2\n"
OrderExample ==
    join_nl(<< <<"#", "#", " ", "S1">>,
               <<"#", "#", "#", " ", "Mentee">>,
               <<"-", " ", "a">>,
               <<"-", " ", "b">>,
               <<"#", "#", " ", "S2">>,
               <<>> >>)

ParseContents ==
    {join_nl(ls) : ls \in SeqsUpTo(ParseLineSet, MaxLines)}
    \cup {ScriptExample, SkillsExample, OrderExample}

\* Markdown lines of the script documents: one section header, the role tokens
\* with and without '*', an unrecognized token with and without '*', a question
\* and an action item.
ScriptLineSet ==
    { <<"#", "#", " ", "S">>,
      <<"#", "#", "#", " ", "Mentee">>,
      <<"#", "#", "#", " ", "Mentor">>,
      <<"#", "#", "#", " ", "Both">>,
      <<"#", "#", "#", " ", "Both", "*">>,
      <<"#", "#", "#", " ", "Notes">>,
      <<"#", "#", "#", " ", "Notes", "*">>,
      <<"-", " ", "Q">>,
      <<"-", " ", "R", "*">> }

\* Two sections with questions in each.
TwoSectionExample ==
    join_nl(<< <<"#", "#", " ", "S">>,
               <<"#", "#", "#", " ", "Mentee">>,
               <<"-", " ", "Q">>,
               <<"#", "#", " ", "S">>,
               <<"#", "#", "#", " ", "Both">>,
               <<"-", " ", "Q">> >>)

\* The documents handed to generate_latex_script: what parse_markdown returns
\* for a section header followed by at most MaxScriptLines lines.
ScriptDocuments ==
    {parse_markdown(join_nl(<< <<"#", "#", " ", "S">> >> \o ls)) :
         ls \in SeqsUpTo(ScriptLineSet, MaxScriptLines)}
    \cup {parse_markdown(ScriptExample), parse_markdown(TwoSectionExample)}

\* Markdown lines around the prefixes: each prefix with a text, a bullet with
\* spaces around its text, each of '## ', '### ', '- ' with no text, and '## '
\* followed by a form feed only.
EdgeLineSet ==
    { <<"#", " ", "T">>,
      <<"#", "#", " ", "A">>,
      <<"#", "#", "#", " ", "Mentee">>,
      <<"-", " ", " ", "x", " ">>,
      <<"#", "#", " ">>,
      <<"#", "#", "#", " ">>,
      <<"-", " ">>,
      <<"#", "#", " ", "\f">> }

EdgeContents == {join_nl(ls) : ls \in SeqsUpTo(EdgeLineSet, MaxEdgeLines)}

\* The characters escape_latex replaces, and two it leaves alone.
EscapeChars == {"&", "%", "$", "#", "_", "{", "}", "~", "^", "\\", "a", " "}

\* "100% & $5_test"
EscapeExample ==
    <<"1", "0", "0", "%", " ", "&", " ", "$", "5", "_", "t", "e", "s", "t">>

EscapeTexts == SeqsUpTo(EscapeChars, MaxTextLen) \cup {EscapeExample}

(***************************************************************************)
(* Files, paths and print().                                               *)
(*                                                                         *)
(* A path string is a record: its directory, its base name, its extension  *)
(* and whether the string is absolute.  Two strings name the same file     *)
(* when their absolute paths are equal.  A file holds Absent, a markdown   *)
(* text, a LaTeX text, an auxiliary file of pdflatex, or a PDF that is     *)
(* "old" (there before the run), "new" (written whole by pdflatex in this  *)
(* run) or "partial" (a write that was cut short).                         *)
(***************************************************************************)
Path(dir, base, ext) == [abs |-> FALSE, dir |-> dir, base |-> base, ext |-> ext]

NoPath == Path("", "", "")

\* os.path.abspath(p)
abspath(p) == [p EXCEPT !.abs = TRUE]

\* os.path.dirname(p)
dirname(p) == [abs |-> p.abs, dir |-> p.dir]

\* os.path.basename(p)
basename(p) == [base |-> p.base, ext |-> p.ext]

\* os.path.join(d, f)
join(d, f) == [abs |-> d.abs, dir |-> d.dir, base |-> f.base, ext |-> f.ext]

\* f.replace(old, new) on a file name whose only occurrence of old is its extension.
replace_ext(f, old, new) == IF f.ext = old THEN [f EXCEPT !.ext = new] ELSE f

Absent == [kind |-> "absent"]
Markdown(t) == [kind |-> "md", text |-> t]
Tex(latex_content) == [kind |-> "tex", latex |-> latex_content]
\* A .tex file whose write stopped inside a line: the whole lines written, and
\* after them the beginning of the next one.
TexCut(latex_content) == [kind |-> "tex", latex |-> latex_content, cut |-> TRUE]
Pdf(state) == [kind |-> "pdf", state |-> state]
Aux == [kind |-> "aux"]
Rtf(rtf_content) == [kind |-> "rtf", rtf |-> rtf_content]

\* Path('content'), Path('outputs') and the two inputs (create_documents.py:29-30, 41, 118).
content_dir == "content"
output_dir == "outputs"
script_md == Path(content_dir, "script", ".md")
skills_md == Path(content_dir, "skills", ".md")

\* The three artifacts, in the order of the steps, and the role of a script step.
StepBase == <<"script_mentee", "script_mentor", "skill_assessment">>
StepRole == <<Mentee, Mentor>>

tex_output_of(step) == Path(output_dir, StepBase[step], ".tex")
pdf_output_of(step) == Path(output_dir, StepBase[step], ".pdf")

\* A directory other than the one of the .tex file, for a caller of
\* compile_latex_to_pdf that wants the PDF elsewhere.
other_dir == "final"

Files ==
    {abspath(script_md), abspath(skills_md)}
    \cup {abspath(Path(output_dir, StepBase[s], e)) :
              s \in 1..Len(StepBase), e \in {".tex", ".pdf", ".aux", ".log", ".out"}}
    \cup {abspath(Path(other_dir, StepBase[s], ".pdf")) : s \in 1..Len(StepBase)}
    \cup {abspath(Path(output_dir, StepBase[s], ".rtf")) : s \in 1..Len(StepBase)}

EmptyFs == [f \in Files |-> Absent]

\* os.path.exists(p) / Path.exists()
exists(p) == fs[abspath(p)] # Absent

\* The file system f with c written at p (c = Absent: p removed).
write(f, p, c) == [f EXCEPT ![abspath(p)] = c]

\* One print() call: its fixed text and the path it formats into it.
Message(t, p) == [text |-> t, path |-> p]
Say(t) == Message(t, NoPath)

RECURSIVE universal_newlines(_)
\* open(file_path, 'r') (endoy.py:121): text mode reads '\r\n' and a lone '\r'
\* as '\n'.
universal_newlines(t) ==
    IF t = <<>> THEN <<>>
    ELSE IF Head(t) = "\r"
    THEN IF Len(t) > 1 /\ t[2] = "\n"
         THEN <<"\n">> \o universal_newlines(SubSeq(t, 3, Len(t)))
         ELSE <<"\n">> \o universal_newlines(Tail(t))
    ELSE <<Head(t)>> \o universal_newlines(Tail(t))

\* parse_markdown_file(file_path) (endoy.py:111-124).
parse_markdown_file(file_path) ==
    parse_markdown(universal_newlines(fs[abspath(file_path)].text))

(***************************************************************************)
(* compile_latex_to_pdf (endoy.py:542-601).                                *)
(***************************************************************************)
\* The locals before any call.
NoCompile ==
    [tex_path |-> NoPath, output_pdf_path |-> NoPath, runs |-> 0,
     returncode |-> None, ext |-> 0, ret |-> None]

\* The locals at entry of compile_latex_to_pdf(tex_path, output_pdf_path).
Call(tex_path, output_pdf_path) ==
    [NoCompile EXCEPT !.tex_path = tex_path, !.output_pdf_path = output_pdf_path]

\* Lines 556-557.
tex_dir == dirname(abspath(compile.tex_path))
tex_file == basename(compile.tex_path)

\* Line 569.
generated_pdf == join(tex_dir, replace_ext(tex_file, ".tex", ".pdf"))

\* Lines 584-587.
aux_extensions == <<".aux", ".log", ".out">>
aux_file(ext) == join(tex_dir, replace_ext(tex_file, ".tex", ext))

\* Line 560: for _ in range(2).
PdflatexRuns == 2

\* return value, after printing msgs.
Return(value, msgs) ==
    /\ compile' = [compile EXCEPT !.ret = <<value>>]
    /\ printed' = printed \o msgs
    /\ pc' = "returned"

\* How one subprocess.run of pdflatex can end: exit status 0, a non-zero exit
\* status, the timeout, no pdflatex to start, or another exception (OSError
\* at the start, UnicodeDecodeError on the output of a run that ended).
PdflatexOutcomes == {"exit_0", "exit_nonzero", "timeout", "missing", "raises"}

\* The auxiliary files a run has written when it ends: any of the three.
AuxWrites == SUBSET {".aux", ".log", ".out"}

\* What a run has done to the PDF next to the .tex file when it ends: nothing,
\* written it whole, written part of it, or removed it.
PdfEffects == {"keep", "new", "partial", "removed"}

\* The endings of a run: without pdflatex nothing starts, so nothing is
\* written; a run that started can end in any way with any files written.
PdflatexCan(outcome, wrote, effect) ==
    outcome = "missing" => wrote = {} /\ effect = "keep"

\* What shutil.move can do: move the file; raise with nothing done (the
\* destination directory is missing, or another error); raise with the
\* destination partly written; raise after the copy, the source still there.
MoveOutcomes == {"moved", "failed", "failed_no_dir", "failed_partial", "failed_copied"}

(***************************************************************************)
(* create_documents.main (create_documents.py:18-163): its locals.         *)
(***************************************************************************)
\* The characters outside ASCII that main prints: the arrow of lines 63, 95,
\* 134 and the check mark of lines 68, 100, 130, 139, 157.
Arrow == "U+2192"
CheckMark == "U+2713"
Unicode == {Arrow, CheckMark}

\* What the encoding of sys.stdout has of them: neither (ascii, latin-1,
\* cp1252), the arrow only (cp932, gbk, big5), or both (utf-8, gb18030); no
\* codec of Python has the check mark without the arrow.
StdoutEncodings == { {}, {Arrow}, Unicode }

\* The characters outside ASCII in the line print()ed for message m.
NonAscii(m) ==
    CASE m.text = "Compiling LaTeX to PDF..." -> {Arrow}
      [] m.text \in {"Generated:", "Generated LaTeX:",
                     "All documents generated successfully!"} -> {CheckMark}
      [] OTHER -> {}

\* print() of m raises UnicodeEncodeError, before it writes anything, when
\* the encoding of sys.stdout lacks a character of the line.
CanPrint(m) == NonAscii(m) \subseteq stdout

\* The locals before main runs: step is the step main is at (1, 2, 3).
NoMain ==
    [step |-> 0, script_data |-> None, tex_output |-> NoPath,
     pdf_output |-> NoPath, success |-> None]

\* No batch run and no call of compile_latex_to_pdf.
BatchIdle ==
    /\ fs = EmptyFs
    /\ printed = <<>>
    /\ exit_status = None
    /\ main = NoMain
    /\ compile = NoCompile
    /\ stdout = Unicode

(***************************************************************************)
(* The program: parse_markdown line by line, then one generator.           *)
(***************************************************************************)
Idle ==
    /\ lines = <<>>
    /\ idx = 0
    /\ current_section = None
    /\ current_subsection = None
    /\ role = <<>>
    /\ latex = <<>>
    /\ prev_latex = <<>>

Init ==
    /\ content \in ParseContents
    /\ result = InitialParserState.result
    /\ pc = "start"
    /\ text = <<>>
    /\ escaped = <<>>
    /\ Idle
    /\ BatchIdle

\* The parser's locals, read from the variables.
Locals == ParserState(result, current_section, current_subsection)

\* The parser's locals, written to the variables.
SetLocals(st) ==
    /\ result' = st.result
    /\ current_section' = st.current_section
    /\ current_subsection' = st.current_subsection

\* CurrentLine without line 55: the line as split, trailing whitespace kept.
CurrentLine_NoRstrip == lines[idx]

\* The line the loop is at, after line.rstrip() (line 55).
CurrentLine == rstrip(lines[idx])

AtLine(kind) ==
    /\ pc = "scan"
    /\ idx <= Len(lines)
    /\ LineKind(CurrentLine) = kind

NextLine ==
    /\ idx' = idx + 1
    /\ UNCHANGED <<content, lines, pc, role, latex, prev_latex, text, escaped, batch_vars>>

\* Lines 45-52.
ParseStart ==
    /\ pc = "start"
    /\ lines' = split_lines(content)
    /\ idx' = 1
    /\ SetLocals(InitialParserState)
    /\ pc' = "scan"
    /\ UNCHANGED <<content, role, latex, prev_latex, text, escaped, batch_vars>>

TitleLine == AtLine("title") /\ SetLocals(OnTitle(Locals, CurrentLine)) /\ NextLine

SectionLine == AtLine("section") /\ SetLocals(OnSection(Locals, CurrentLine)) /\ NextLine

SubsectionLine ==
    AtLine("subsection") /\ SetLocals(OnSubsection(Locals, CurrentLine)) /\ NextLine

BulletLine == AtLine("bullet") /\ SetLocals(OnBullet(Locals, CurrentLine)) /\ NextLine

\* No branch of the if/elif chain matches: the loop goes on.
OtherLine ==
    AtLine("other") /\ SetLocals(ParseLine(Locals, lines[idx])) /\ NextLine

\* Lines 102-108.
ParseEnd ==
    /\ pc = "scan"
    /\ idx > Len(lines)
    /\ SetLocals(FinishParse(Locals))
    /\ pc' = "parsed"
    /\ UNCHANGED <<content, lines, idx, role, latex, prev_latex, text, escaped, batch_vars>>

\* generate_latex_script(result, r), on a parsed document, any number of times.
GenerateScript(r) ==
    /\ pc \in {"parsed", "script"}
    /\ role' = r
    /\ latex' = generate_latex_script(result, r)
    /\ prev_latex' = latex
    /\ pc' = "script"
    /\ UNCHANGED <<content, lines, idx, result, current_section,
                   current_subsection, text, escaped, batch_vars>>

\* generate_latex_skills(result), on a parsed document.
GenerateSkills ==
    /\ pc = "parsed"
    /\ latex' = generate_latex_skills(result)
    /\ pc' = "skills"
    /\ UNCHANGED <<content, lines, idx, result, current_section,
                   current_subsection, role, prev_latex, text, escaped, batch_vars>>

Next ==
    \/ ParseStart
    \/ TitleLine
    \/ SectionLine
    \/ SubsectionLine
    \/ BulletLine
    \/ OtherLine
    \/ ParseEnd
    \/ \E r \in Roles : GenerateScript(r)
    \/ GenerateSkills

Spec == Init /\ [][Next]_vars

(***************************************************************************)
(* generate_latex_script called repeatedly on one parsed document.         *)
(***************************************************************************)
InitScript ==
    /\ content = <<>>
    /\ result \in ScriptDocuments
    /\ pc = "parsed"
    /\ text = <<>>
    /\ escaped = <<>>
    /\ Idle
    /\ BatchIdle

NextScript == \E r \in Roles : GenerateScript(r)

SpecScript == InitScript /\ [][NextScript]_vars

(***************************************************************************)
(* escape_latex on one text.                                               *)
(***************************************************************************)
InitEscape ==
    /\ content = <<>>
    /\ result = InitialParserState.result
    /\ pc = "escape"
    /\ text \in EscapeTexts
    /\ escaped = <<>>
    /\ Idle
    /\ BatchIdle

Escape ==
    /\ pc = "escape"
    /\ escaped' = escape_latex(text)
    /\ pc' = "escaped"
    /\ UNCHANGED <<content, lines, idx, result, current_section,
                   current_subsection, role, latex, prev_latex, text, batch_vars>>

NextEscape == Escape

SpecEscape == InitEscape /\ [][NextEscape]_vars

(***************************************************************************)
(* parse_markdown alone, on lines with and without text after the prefix.  *)
(***************************************************************************)
InitEdge ==
    /\ content \in EdgeContents
    /\ result = InitialParserState.result
    /\ pc = "start"
    /\ text = <<>>
    /\ escaped = <<>>
    /\ Idle
    /\ BatchIdle

NextParse ==
    \/ ParseStart
    \/ TitleLine
    \/ SectionLine
    \/ SubsectionLine
    \/ BulletLine
    \/ OtherLine
    \/ ParseEnd

SpecEdge == InitEdge /\ [][NextParse]_vars

(***************************************************************************)
(* compile_latex_to_pdf, step by step.                                     *)
(***************************************************************************)
\* The variables of parse_markdown, the generators and escape_latex.
call_vars == <<content, lines, idx, result, current_section, current_subsection,
               role, latex, prev_latex, text, escaped>>

\* The file system after a run of pdflatex in tex_dir that wrote the auxiliary
\* files of wrote and had effect on the PDF.
AfterPdflatex(wrote, effect) ==
    [f \in Files |->
        IF \E e \in wrote : f = abspath(aux_file(e)) THEN Aux
        ELSE IF f = abspath(generated_pdf)
        THEN CASE effect = "keep" -> fs[f]
               [] effect = "new" -> Pdf("new")
               [] effect = "partial" -> Pdf("partial")
               [] effect = "removed" -> Absent
        ELSE fs[f]]

\* Lines 559-566 and 593-601, one pass of the loop: subprocess.run of pdflatex
\* in tex_dir, and the except branches it can reach.
RunPdflatex ==
    /\ pc = "pdflatex"
    /\ \E outcome \in PdflatexOutcomes, wrote \in AuxWrites, effect \in PdfEffects :
           /\ PdflatexCan(outcome, wrote, effect)
           /\ fs' = AfterPdflatex(wrote, effect)
           /\ CASE outcome = "missing" ->
                       Return(FALSE, <<Say("pdflatex not found")>>)
                [] outcome = "timeout" ->
                       Return(FALSE, <<Say("pdflatex compilation timed out")>>)
                [] outcome = "raises" ->
                       Return(FALSE, <<Say("Error during PDF compilation")>>)
                [] outcome \in {"exit_0", "exit_nonzero"} ->
                       /\ compile' = [compile EXCEPT
                                         !.runs = @ + 1,
                                         !.returncode = IF outcome = "exit_0"
                                                        THEN <<0>> ELSE <<1>>]
                       /\ printed' = printed
                       /\ pc' = IF compile.runs + 1 = PdflatexRuns
                                THEN "check" ELSE "pdflatex"
    /\ UNCHANGED <<exit_status, main, call_vars, stdout>>

\* Lines 569-575: the PDF next to the .tex file must exist.  The print of
\* result.stderr (line 574) raises when pdflatex wrote a character there that
\* the encoding of sys.stdout lacks; line 599 catches that.
CheckGenerated ==
    /\ pc = "check"
    /\ IF ~exists(generated_pdf)
       THEN \/ Return(FALSE,
                      <<Say("pdflatex failed to generate PDF")>>
                      \o IF compile.returncode # <<0>>
                         THEN <<Say("pdflatex error")>> ELSE <<>>)
            \/ /\ compile.returncode # <<0>>
               /\ Return(FALSE, <<Say("pdflatex failed to generate PDF"),
                                  Say("Error during PDF compilation")>>)
       ELSE /\ pc' = "move"
            /\ UNCHANGED <<printed, compile>>
    /\ UNCHANGED <<fs, exit_status, main, call_vars, stdout>>

\* Lines 579-581: shutil.move when the two path strings differ.  A move onto
\* the same file does nothing; a move to another file can fail and leave the
\* destination as it was or partly written.
MovePdf ==
    /\ pc = "move"
    /\ LET src == abspath(generated_pdf)
           dst == abspath(compile.output_pdf_path)
           clean ==
               /\ compile' = [compile EXCEPT !.ext = 1]
               /\ printed' = printed
               /\ pc' = "clean"
       IN  IF generated_pdf # compile.output_pdf_path
           THEN \E outcome \in MoveOutcomes :
                    CASE outcome = "moved" ->
                             /\ fs' = IF src = dst THEN fs
                                      ELSE [fs EXCEPT ![dst] = fs[src], ![src] = Absent]
                             /\ clean
                      [] outcome = "failed" ->
                             /\ src # dst
                             /\ fs' = fs
                             /\ Return(FALSE, <<Say("Error during PDF compilation")>>)
                      [] outcome = "failed_no_dir" ->
                             /\ src # dst
                             /\ fs' = fs
                             /\ Return(FALSE, <<Say("pdflatex not found")>>)
                      [] outcome = "failed_partial" ->
                             /\ src # dst
                             /\ fs' = [fs EXCEPT ![dst] = Pdf("partial")]
                             /\ Return(FALSE, <<Say("Error during PDF compilation")>>)
                      [] outcome = "failed_copied" ->
                             /\ src # dst
                             /\ fs' = [fs EXCEPT ![dst] = fs[src]]
                             /\ Return(FALSE, <<Say("Error during PDF compilation")>>)
           ELSE /\ fs' = fs
                /\ clean
    /\ UNCHANGED <<exit_status, main, call_vars, stdout>>

\* Lines 586-589, one pass of the loop: os.remove of an auxiliary file that
\* exists, which can raise.
RemoveAux ==
    /\ pc = "clean"
    /\ compile.ext <= Len(aux_extensions)
    /\ LET f == aux_file(aux_extensions[compile.ext])
           next_ext ==
               /\ compile' = [compile EXCEPT !.ext = @ + 1]
               /\ printed' = printed
               /\ pc' = "clean"
       IN  IF exists(f)
           THEN \/ /\ fs' = write(fs, f, Absent)
                   /\ next_ext
                \/ /\ fs' = fs
                   /\ Return(FALSE, <<Say("Error during PDF compilation")>>)
           ELSE /\ fs' = fs
                /\ next_ext
    /\ UNCHANGED <<exit_status, main, call_vars, stdout>>

\* Line 591.
ReturnTrue ==
    /\ pc = "clean"
    /\ compile.ext > Len(aux_extensions)
    /\ Return(TRUE, <<>>)
    /\ UNCHANGED <<fs, exit_status, main, call_vars, stdout>>

\* One call of compile_latex_to_pdf on a .tex file that exists: the output
\* path is the PDF next to the .tex file (as a relative or as an absolute
\* string) or a file elsewhere; either PDF may be there from before.
CompileTexPath == tex_output_of(1)

CompileOutputPaths ==
    { pdf_output_of(1), abspath(pdf_output_of(1)), Path(other_dir, StepBase[1], ".pdf") }

InitCompile ==
    /\ content = <<>>
    /\ result = InitialParserState.result
    /\ text = <<>>
    /\ escaped = <<>>
    /\ Idle
    /\ pc = "pdflatex"
    /\ printed = <<>>
    /\ exit_status = None
    /\ main = NoMain
    /\ stdout \in StdoutEncodings
    /\ \E output_pdf_path \in CompileOutputPaths :
           /\ compile = Call(CompileTexPath, output_pdf_path)
           /\ \E there, next_to_tex \in {Absent, Pdf("old")} :
                  fs = write(write(write(EmptyFs, CompileTexPath,
                                         Tex(generate_latex_script(
                                                 parse_markdown(ScriptExample), Mentee))),
                                   output_pdf_path, there),
                             pdf_output_of(1), next_to_tex)

NextCompile ==
    \/ RunPdflatex
    \/ CheckGenerated
    \/ MovePdf
    \/ RemoveAux
    \/ ReturnTrue

SpecCompile == InitCompile /\ [][NextCompile]_vars

(***************************************************************************)
(* create_documents.main, step by step; compile_latex_to_pdf runs inside   *)
(* each step.  The outputs directory is there (line 33 makes it).          *)
(***************************************************************************)
\* sys.exit(code), after printing msgs.
Exit(code, msgs) ==
    /\ exit_status' = <<code>>
    /\ printed' = printed \o msgs
    /\ pc' = "exited"

\* The file systems save_latex_file(latex_content, file_path) (endoy.py:526-535)
\* can leave when it raises: open() failed and nothing changed, or the file was
\* created or emptied by open(file_path, 'w') and the write stopped before the
\* end: after n whole lines, or inside the line after them.
SaveFailures(latex_content, file_path) ==
    {fs} \cup
    UNION { { write(fs, file_path, Tex(SubSeq(latex_content, 1, n))),
              write(fs, file_path, TexCut(SubSeq(latex_content, 1, n))) } :
            n \in 0..(Len(latex_content) - 1) }

\* "=" * 60 (lines 35, 37, 157, 159).
Rule == Say("============================================================")

\* Lines 74-79, 106-111, 147-151: except Exception in a step: the error is
\* printed with the name of the PDF, then sys.exit(1).
OnException(msgs) ==
    Exit(1, msgs \o <<Message("ERROR generating", pdf_output_of(main.step))>>)

\* Lines 29-47: the banner, then script.md is parsed or the run ends.  mkdir
\* (line 33) and parse_markdown_file (line 47) are outside every try: when one
\* raises, the exception ends the process with status 1 and nothing more is
\* printed.
MainStart ==
    /\ pc = "main"
    /\ LET banner == <<Rule, Say("Generating end-of-year meeting documents..."), Rule>>
       IN  \/ /\ Exit(1, <<>>)
              /\ UNCHANGED main
           \/ /\ ~exists(script_md)
              /\ Exit(1, banner \o <<Message("ERROR: not found", script_md)>>)
              /\ UNCHANGED main
           \/ /\ exists(script_md)
              /\ \/ /\ main' = [main EXCEPT
                                    !.script_data = <<parse_markdown_file(script_md)>>,
                                    !.step = 1]
                    /\ printed' = printed \o banner
                    /\ pc' = "step"
                    /\ UNCHANGED exit_status
                 \/ /\ Exit(1, banner)
                    /\ UNCHANGED main
    /\ UNCHANGED <<fs, compile, call_vars, stdout>>

\* Lines 52-63 and 84-95: a script step up to its call of compile_latex_to_pdf;
\* save_latex_file can raise, which ends the run with the .tex file as the
\* failed save left it; the print of line 63 or 95 raises when sys.stdout has
\* no arrow, which ends the run with the .tex file saved.
MainScriptStep ==
    /\ pc = "step"
    /\ main.step \in 1..Len(StepRole)
    /\ LET script_latex == generate_latex_script(main.script_data[1], StepRole[main.step])
           tex_output == tex_output_of(main.step)
           pdf_output == pdf_output_of(main.step)
           started == <<Message("Generating", pdf_output)>>
           compiling == Say("Compiling LaTeX to PDF...")
       IN  \/ /\ CanPrint(compiling)
              /\ fs' = write(fs, tex_output, Tex(script_latex))
              /\ main' = [main EXCEPT !.tex_output = tex_output,
                                      !.pdf_output = pdf_output]
              /\ compile' = Call(tex_output, pdf_output)
              /\ printed' = printed \o started \o <<compiling>>
              /\ pc' = "pdflatex"
              /\ UNCHANGED exit_status
           \/ /\ ~CanPrint(compiling)
              /\ fs' = write(fs, tex_output, Tex(script_latex))
              /\ main' = [main EXCEPT !.tex_output = tex_output,
                                      !.pdf_output = pdf_output]
              /\ OnException(started)
              /\ UNCHANGED compile
           \/ /\ fs' \in SaveFailures(script_latex, tex_output)
              /\ main' = [main EXCEPT !.tex_output = tex_output]
              /\ OnException(started)
              /\ UNCHANGED compile
    /\ UNCHANGED <<call_vars, stdout>>

\* Lines 116-134: the assessment step up to its call of compile_latex_to_pdf,
\* or the end of the run when skills.md is missing, when save_latex_file raises
\* or when parse_markdown_file raises (tex_output not yet assigned), or when
\* the print of line 130 or 134 raises after the .tex file was saved.
MainSkillsStep ==
    /\ pc = "step"
    /\ main.step = Len(StepBase)
    /\ LET tex_output == tex_output_of(main.step)
           pdf_output == pdf_output_of(main.step)
           started == <<Message("Generating", pdf_output)>>
           saved == Message("Generated LaTeX:", tex_output)
           compiling == Say("Compiling LaTeX to PDF...")
       IN  IF ~exists(skills_md)
           THEN /\ Exit(1, started \o <<Message("ERROR: not found", skills_md)>>)
                /\ UNCHANGED <<fs, main, compile>>
           ELSE \/ /\ CanPrint(saved) /\ CanPrint(compiling)
                   /\ fs' = write(fs, tex_output,
                                  Tex(generate_latex_skills(parse_markdown_file(skills_md))))
                   /\ main' = [main EXCEPT !.tex_output = tex_output,
                                           !.pdf_output = pdf_output]
                   /\ compile' = Call(tex_output, pdf_output)
                   /\ printed' = printed \o started \o <<saved, compiling>>
                   /\ pc' = "pdflatex"
                   /\ UNCHANGED exit_status
                \/ /\ ~CanPrint(saved)
                   /\ fs' = write(fs, tex_output,
                                  Tex(generate_latex_skills(parse_markdown_file(skills_md))))
                   /\ main' = [main EXCEPT !.tex_output = tex_output]
                   /\ OnException(started)
                   /\ UNCHANGED compile
                \/ /\ CanPrint(saved) /\ ~CanPrint(compiling)
                   /\ fs' = write(fs, tex_output,
                                  Tex(generate_latex_skills(parse_markdown_file(skills_md))))
                   /\ main' = [main EXCEPT !.tex_output = tex_output,
                                           !.pdf_output = pdf_output]
                   /\ OnException(started \o <<saved>>)
                   /\ UNCHANGED compile
                \/ /\ fs' \in SaveFailures(
                                  generate_latex_skills(parse_markdown_file(skills_md)),
                                  tex_output)
                   /\ main' = [main EXCEPT !.tex_output = tex_output]
                   /\ OnException(started)
                   /\ UNCHANGED compile
                \/ /\ OnException(started)
                   /\ UNCHANGED <<fs, main, compile>>
    /\ UNCHANGED <<call_vars, stdout>>

\* OnCompileFailure that also removes the .tex file, as the success branch does.
OnCompileFailure_Unlink ==
    /\ fs' = write(fs, main.tex_output, Absent)
    /\ main' = [main EXCEPT !.success = <<FALSE>>]
    /\ Exit(1, <<Say("ERROR: Failed to compile PDF"),
                 Message("LaTeX source saved at:", main.tex_output)>>)

\* Lines 73-76, 105-108, 143-146: the else branch of if success.
OnCompileFailure ==
    /\ fs' = fs
    /\ main' = [main EXCEPT !.success = <<FALSE>>]
    /\ Exit(1, <<Say("ERROR: Failed to compile PDF"),
                 Message("LaTeX source saved at:", main.tex_output)>>)

\* Lines 67-69, 99-101, 138-141: the success branch; the script steps unlink
\* their .tex file, which can raise and end the run; the assessment step keeps
\* its .tex file.  The print of line 68, 100 or 139 raises when sys.stdout has
\* no check mark, which ends the run with the .tex file and the PDF there.
OnCompileSuccess ==
    LET generated == <<Message("Generated:", main.pdf_output)>>
    IN  \/ /\ CanPrint(generated[1])
           /\ fs' = IF main.step \in 1..Len(StepRole)
                    THEN write(fs, main.tex_output, Absent)
                    ELSE fs
           /\ main' = [main EXCEPT !.success = <<TRUE>>, !.step = @ + 1]
           /\ printed' = printed \o generated
           /\ pc' = IF main.step = Len(StepBase) THEN "summary" ELSE "step"
           /\ UNCHANGED exit_status
        \/ /\ CanPrint(generated[1])
           /\ main.step \in 1..Len(StepRole)
           /\ fs' = fs
           /\ main' = [main EXCEPT !.success = <<TRUE>>]
           /\ OnException(generated)
        \/ /\ ~CanPrint(generated[1])
           /\ fs' = fs
           /\ main' = [main EXCEPT !.success = <<TRUE>>]
           /\ OnException(<<>>)

\* Lines 68-76, 100-108, 137-146: success = compile_latex_to_pdf(...) and the
\* if on it.
MainAfterCompile ==
    /\ pc = "returned"
    /\ main.step \in 1..Len(StepBase)
    /\ IF compile.ret = <<TRUE>> THEN OnCompileSuccess ELSE OnCompileFailure
    /\ UNCHANGED <<compile, call_vars, stdout>>

\* Lines 156-163: the eight print() calls of the summary; main returns and the
\* process exits with 0.  They are outside every try: when the print of line
\* 157 raises, the exception ends the process with status 1.
MainSummary ==
    /\ pc = "summary"
    /\ LET done == Say("All documents generated successfully!")
       IN  IF CanPrint(done)
           THEN Exit(0, <<Rule, done, Rule, Say("Output files:")>>
                        \o [s \in 1..Len(StepBase) |-> Message("-", pdf_output_of(s))]
                        \o <<Say("")>>)
           ELSE Exit(1, <<Rule>>)
    /\ UNCHANGED <<fs, main, compile, call_vars, stdout>>

\* A run of main: each input is there or missing, and the PDFs of a run
\* before may be in outputs/.
InitMain ==
    /\ content = <<>>
    /\ result = InitialParserState.result
    /\ text = <<>>
    /\ escaped = <<>>
    /\ Idle
    /\ pc = "main"
    /\ printed = <<>>
    /\ exit_status = None
    /\ main = NoMain
    /\ compile = NoCompile
    /\ stdout \in StdoutEncodings
    /\ \E script \in {Absent, Markdown(ScriptExample)},
          skills \in {Absent, Markdown(SkillsExample)},
          earlier \in {Absent, Pdf("old")} :
           fs = [f \in Files |->
                    IF f = abspath(script_md) THEN script
                    ELSE IF f = abspath(skills_md) THEN skills
                    ELSE IF f \in {abspath(pdf_output_of(s)) : s \in 1..Len(StepBase)}
                    THEN earlier
                    ELSE Absent]

NextMain ==
    \/ MainStart
    \/ MainScriptStep
    \/ MainSkillsStep
    \/ RunPdflatex
    \/ CheckGenerated
    \/ MovePdf
    \/ RemoveAux
    \/ ReturnTrue
    \/ MainAfterCompile
    \/ MainSummary

SpecMain == InitMain /\ [][NextMain]_vars

(***************************************************************************)
(* escape_rtf and save_rtf_file (endoy.py:131-152, 329-338).               *)
(***************************************************************************)
\* The characters escape_rtf replaces, and one it leaves alone.
RtfTexts == SeqsUpTo({"\\", "{", "}", "a"}, MaxTextLen)

\* The paths save_rtf_file is given: a new file, and a file that is there.
RtfPaths == {Path(output_dir, StepBase[1], ".rtf"), pdf_output_of(1)}

InitRtf ==
    /\ content = <<>>
    /\ result = InitialParserState.result
    /\ pc = "escape_rtf"
    /\ text \in RtfTexts
    /\ escaped = <<>>
    /\ Idle
    /\ fs \in {EmptyFs, write(EmptyFs, pdf_output_of(1), Pdf("old"))}
    /\ printed = <<>>
    /\ exit_status = None
    /\ main = NoMain
    /\ compile = NoCompile
    /\ stdout = Unicode

EscapeRtf ==
    /\ pc = "escape_rtf"
    /\ escaped' = escape_rtf(text)
    /\ pc' = "rtf"
    /\ UNCHANGED <<content, lines, idx, result, current_section,
                   current_subsection, role, latex, prev_latex, text, batch_vars>>

\* save_rtf_file(rtf_content, file_path): the file holds rtf_content; or the
\* call raises: open() failed and nothing changed, or the file was created or
\* emptied by open(file_path, 'w') and the write stopped before the end of
\* rtf_content.
SaveRtfFile(file_path) ==
    /\ pc = "rtf"
    /\ \/ /\ fs' = write(fs, file_path, Rtf(escaped))
          /\ pc' = "saved"
       \/ /\ fs' \in {fs} \cup { write(fs, file_path, Rtf(SubSeq(escaped, 1, n))) :
                                  n \in 0..(Len(escaped) - 1) }
          /\ pc' = "raised"
    /\ UNCHANGED <<printed, exit_status, main, compile, call_vars, stdout>>

NextRtf ==
    \/ EscapeRtf
    \/ \E file_path \in RtfPaths : SaveRtfFile(file_path)

SpecRtf == InitRtf /\ [][NextRtf]_vars

(***************************************************************************)
(* Properties.                                                             *)
(***************************************************************************)
\* The lines of a generated document of the kinds ks, in order.
LinesOfKind(doc_lines, ks) == SelectSeq(doc_lines, LAMBDA l : l.k \in ks)

\* The lines that show an item (as action text, as a question, as gray text) or
\* hold an interactive field.
ItemLines(doc_lines) ==
    LinesOfKind(doc_lines, {"textit", "question", "gray", "TextField"})

RECURSIVE Flatten(_)
\* The concatenation of a sequence of sequences.
Flatten(ss) == IF ss = <<>> THEN <<>> ELSE Head(ss) \o Flatten(Tail(ss))

\* The sequence f(s[1]), ..., f(s[n]).
Map(f(_), s) == [i \in 1..Len(s) |-> f(s[i])]

\* The subsection header without its trailing '*'.
BaseHeader(header) == rstrip_star(header)

\* All subsections of a document, in document order.
AllSubsections(parsed_data) ==
    Flatten(Map(LAMBDA section : section.subsections, parsed_data.sections))

----------------------------------------------------------------------------
\* C1: escape_latex replaces each reserved character of the original text by
\* its escape sequence exactly once, and leaves every other character and every
\* character an escape sequence introduced as it is: the result is the
\* character-by-character substitution of the original text.
EscapeOf(c) ==
    CASE c = "&" -> <<"\\", "&">>
      [] c = "%" -> <<"\\", "%">>
      [] c = "$" -> <<"\\", "$">>
      [] c = "#" -> <<"\\", "#">>
      [] c = "_" -> <<"\\", "_">>
      [] c = "{" -> <<"\\", "{">>
      [] c = "}" -> <<"\\", "}">>
      [] c = "~" -> <<"\\", "textasciitilde", "{", "}">>
      [] c = "^" -> <<"\\", "textasciicircum", "{", "}">>
      [] c = "\\" -> <<"\\", "textbackslash", "{", "}">>
      [] OTHER -> <<c>>

C1_EscapesEachOnce ==
    pc = "escaped" => escaped = Flatten(Map(EscapeOf, text))

----------------------------------------------------------------------------
\* C2: a subsection whose header, without its trailing '*', is none of Mentee,
\* Mentor, Both contributes nothing to the output of generate_latex_script: the
\* output is that of the document without those subsections.
Recognized(subsection) == BaseHeader(subsection.header) \in {Mentee, Mentor, Both}

WithoutUnrecognized(parsed_data) ==
    [parsed_data EXCEPT !.sections =
        Map(LAMBDA section :
                [section EXCEPT !.subsections = SelectSeq(@, Recognized)],
            @)]

C2_UnrecognizedRendersNothing ==
    pc = "script" => latex = generate_latex_script(WithoutUnrecognized(result), role)

----------------------------------------------------------------------------
\* C3: generate_latex_skills renders, for each section, one row per item of the
\* section's own items when that list is non-empty, and otherwise one row per
\* item of its subsections, in stored order.
ClaimedSkillItems(section) ==
    IF section.items # <<>> THEN section.items
    ELSE Flatten(Map(LAMBDA subsection : subsection.items, section.subsections))

C3_RowsFromSubsectionsWhenNoDirectItems ==
    pc = "skills" =>
        Map(LAMBDA l : l.text, LinesOfKind(latex, {"row"}))
            = Map(escape_latex, Flatten(Map(ClaimedSkillItems, result.sections)))

----------------------------------------------------------------------------
\* C4: the interactive fields of one generate_latex_script call are named
\* field1, field2, ..., fieldN in document order, and the first field of a call
\* has the name of the first field of the call before it on the same document.
FieldNames(doc_lines) == Map(LAMBDA l : l.name, LinesOfKind(doc_lines, {"TextField"}))

C4_FieldNamesSequentialPerCall ==
    pc = "script" =>
        /\ FieldNames(latex) =
               [n \in 1..Len(FieldNames(latex)) |-> <<"field">> \o Digits(n)]
        /\ (FieldNames(latex) # <<>> /\ FieldNames(prev_latex) # <<>>
                => FieldNames(latex)[1] = FieldNames(prev_latex)[1])

\* A Mentor render after a Mentee render of a document with fields in two
\* sections: the earlier render named Mentor as the other person.
C4_Witness ==
    /\ pc = "script"
    /\ role = Mentor
    /\ Len(result.sections) = 2
    /\ \E i \in DOMAIN prev_latex :
           prev_latex[i].k = "instructions" /\ prev_latex[i].label = Mentor
    /\ Len(FieldNames(prev_latex)) = 3
    /\ FieldNames(latex) = << <<"field", "1">>, <<"field", "2">> >>

----------------------------------------------------------------------------
\* C5: per item, generate_latex_script emits no field under a header ending in
\* '*'; under Both no field for an item ending in '*' and otherwise an unlabeled
\* question with a field, then the question labeled with the other role with a
\* second field; under the rendered role no field for an item ending in '*' and
\* otherwise an unlabeled question with one field; under the other role the item
\* as labeled reference text and no field.
Unlabeled == "unlabeled question"
Labeled == "labeled text"
Field == "field"

\* What a line of the output is, for the count: action text is left out.
ShapeOf(l) ==
    CASE l.k = "question" -> Unlabeled
      [] l.k = "gray" -> Labeled
      [] l.k = "TextField" -> Field

Shape(doc_lines) == Map(ShapeOf, LinesOfKind(doc_lines, {"question", "gray", "TextField"}))

ClaimedItemShape(header, item, r) ==
    IF endswith_star(header) THEN <<>>
    ELSE IF header = Both
    THEN (IF endswith_star(item) THEN <<>> ELSE <<Unlabeled, Field, Labeled, Field>>)
    ELSE IF header = r
    THEN (IF endswith_star(item) THEN <<>> ELSE <<Unlabeled, Field>>)
    ELSE IF header \in Roles
    THEN <<Labeled>>
    ELSE <<>>

ClaimedShape(parsed_data, r) ==
    Flatten(Map(LAMBDA subsection :
                    Flatten(Map(LAMBDA item : ClaimedItemShape(subsection.header, item, r),
                                subsection.items)),
                AllSubsections(parsed_data)))

C5_FieldsPerItemByClassification ==
    pc = "script" => Shape(latex) = ClaimedShape(result, role)

\* The Mentee render of "# Title / ## Sec / ### Mentee / - Q1 / ### Both / - Q2* / - Q3":
\* one field for Q1, none for Q2, two for Q3.
C5_Witness ==
    /\ pc = "script"
    /\ role = Mentee
    /\ result = parse_markdown(ScriptExample)
    /\ Map(LAMBDA l : <<l.k, l.text>>, ItemLines(latex)) =
           << <<"question", <<"Q1">> >>, <<"TextField", <<>> >>,
              <<"textit", <<"Q2">> >>,
              <<"question", <<"Q3">> >>, <<"TextField", <<>> >>,
              <<"gray", <<"Q3">> >>, <<"TextField", <<>> >> >>

----------------------------------------------------------------------------
\* C6: under each of the four classifications and both roles, an item ending in
\* '*' is shown without its trailing '*' and no interactive field follows it.
\* (The action items of the inputs have texts that no question has, so the line
\* showing an action item is known by its text.)
Classified(header, r) ==
    \/ endswith_star(header)
    \/ header = Both
    \/ header \in Roles

\* The items ending in '*' of the subsections generate_latex_script renders.
StarredItems(parsed_data, r) ==
    UNION { { subsection.items[i] : i \in { j \in DOMAIN subsection.items :
                                              endswith_star(subsection.items[j]) } } :
            subsection \in { AllSubsections(parsed_data)[n] :
                               n \in { m \in DOMAIN AllSubsections(parsed_data) :
                                         Classified(AllSubsections(parsed_data)[m].header, r) } } }

\* The item without its one trailing '*'.
Unstarred(item) == SubSeq(item, 1, Len(item) - 1)

C6_StarredItemsStrippedAndFieldless ==
    pc = "script" =>
        LET shown == ItemLines(latex)
        IN  /\ \A i \in DOMAIN shown : ~endswith_star(shown[i].text)
            /\ \A item \in StarredItems(result, role) :
                   /\ \E i \in DOMAIN shown : shown[i].text = Unstarred(item)
                   /\ \A i \in DOMAIN shown :
                          shown[i].text = Unstarred(item)
                              => (i = Len(shown) \/ shown[i + 1].k # "TextField")

\* A render showing action items under an action block, a shared and an
\* other-role subsection.
C6_Witness ==
    /\ pc = "script"
    /\ \E a, b \in DOMAIN AllSubsections(result) :
           /\ AllSubsections(result)[a].header = Both
           /\ AllSubsections(result)[b].header = OtherRole(role)
           /\ <<"R", "*">> \in { AllSubsections(result)[a].items[i] :
                                   i \in DOMAIN AllSubsections(result)[a].items }
           /\ <<"R", "*">> \in { AllSubsections(result)[b].items[i] :
                                   i \in DOMAIN AllSubsections(result)[b].items }
    /\ \E i \in DOMAIN latex : latex[i].k = "textit" /\ latex[i].text = <<"R">>
    /\ \E i \in DOMAIN latex : latex[i].k = "gray" /\ latex[i].text = <<"R">>

----------------------------------------------------------------------------
\* C7: the sections parse_markdown returns are the '## ' lines of the scanned
\* input in source order, each once; the subsections of a section are the '### '
\* lines between its '## ' line and the next in source order; the items of a
\* subsection are the bullets between its '### ' line and the next heading of
\* its section, and the items of a section are the bullets between its '## '
\* line and its first '### ' line.
HasPrefix(raw, prefix) == startswith(rstrip(raw), prefix)

\* The text of a heading or bullet line after its prefix of n characters.
TextAfter(raw, n) == strip(slice_from(rstrip(raw), n))

H2Prefix == <<"#", "#", " ">>
H3Prefix == <<"#", "#", "#", " ">>
BulletPrefix == <<"-", " ">>
H1Prefix == <<"#", " ">>

RECURSIVE Ascending(_)
\* The numbers of S in ascending order.
Ascending(S) ==
    IF S = {} THEN <<>>
    ELSE LET least == CHOOSE n \in S : \A m \in S : n <= m
         IN  <<least>> \o Ascending(S \ {least})

\* The least number of S, or otherwise when S is empty.
LeastOr(S, otherwise) == IF S = {} THEN otherwise ELSE Ascending(S)[1]

\* The texts of the bullet lines strictly between lines a and b.
BulletsBetween(ls, a, b) ==
    Map(LAMBDA i : TextAfter(ls[i], 2),
        Ascending({i \in (a + 1)..(b - 1) : HasPrefix(ls[i], BulletPrefix)}))

SectionStarts(ls) == {i \in DOMAIN ls : HasPrefix(ls[i], H2Prefix)}

\* The line after the last line of the section opened at line i.
SectionEnd(ls, i) == LeastOr({j \in SectionStarts(ls) : j > i}, Len(ls) + 1)

SubsectionStarts(ls, i) ==
    {j \in (i + 1)..(SectionEnd(ls, i) - 1) : HasPrefix(ls[j], H3Prefix)}

SectionAt(ls, i) ==
    [header |-> TextAfter(ls[i], 3),
     subsections |->
         Map(LAMBDA j :
                 [header |-> TextAfter(ls[j], 4),
                  items |-> BulletsBetween(ls, j,
                                LeastOr({k \in SubsectionStarts(ls, i) : k > j},
                                        SectionEnd(ls, i)))],
             Ascending(SubsectionStarts(ls, i))),
     items |-> BulletsBetween(ls, i, LeastOr(SubsectionStarts(ls, i), SectionEnd(ls, i)))]

SectionsOf(ls) == Map(LAMBDA i : SectionAt(ls, i), Ascending(SectionStarts(ls)))

C7_ParseKeepsOrderAndLosesNothing ==
    pc \in {"parsed", "script", "skills"} => result.sections = SectionsOf(lines)

\* Sections S1, S2 with bullets a, b under S1's subsection Mentee.
C7_Witness ==
    /\ pc = "parsed"
    /\ content = OrderExample
    /\ result.sections =
           << [header |-> <<"S1">>,
               subsections |-> <<[header |-> Mentee, items |-> << <<"a">>, <<"b">> >>]>>,
               items |-> <<>>],
              [header |-> <<"S2">>, subsections |-> <<>>, items |-> <<>>] >>

----------------------------------------------------------------------------
\* C8: a step of the parser over an ignored line (a line with none of the four
\* prefixes, a '### ' line while no section is open, a '- ' line while neither a
\* subsection nor a section is open) leaves title, flushed sections, open
\* section and open subsection unchanged.
IgnoredLine(raw) ==
    \/ /\ ~HasPrefix(raw, H1Prefix)
       /\ ~HasPrefix(raw, H2Prefix)
       /\ ~HasPrefix(raw, H3Prefix)
       /\ ~HasPrefix(raw, BulletPrefix)
    \/ HasPrefix(raw, H3Prefix) /\ current_section = None
    \/ HasPrefix(raw, BulletPrefix) /\ current_subsection = None /\ current_section = None

C8_IgnoredLinesChangeNothing ==
    [][(pc = "scan" /\ idx <= Len(lines) /\ idx' = idx + 1 /\ IgnoredLine(lines[idx]))
           => UNCHANGED <<result, current_section, current_subsection>>]_vars

\* The parser has passed a '### ' line, a bullet and a line with no prefix, all
\* before any section.
C8_Witness ==
    /\ pc = "scan"
    /\ idx = 4
    /\ HasPrefix(lines[1], H3Prefix)
    /\ HasPrefix(lines[2], BulletPrefix)
    /\ lines[3] # <<>>
    /\ IgnoredLine(lines[3])
    /\ result = [title |-> <<>>, sections |-> <<>>]
    /\ current_section = None
    /\ current_subsection = None

----------------------------------------------------------------------------
\* C9: generate_latex_skills writes one row per item it renders; the j-th row of
\* the document is named skillj and carries the 5 ability markers, the 3
\* importance markers and the target marker of that name, nine distinct names;
\* no marker name of a row is a marker name of another row.
Range(s) == {s[i] : i \in DOMAIN s}

ClaimedMarkers(skill_name) ==
    {skill_name \o <<"_", "ability", "_", n>> : n \in {"1", "2", "3", "4", "5"}}
    \cup {skill_name \o <<"_", "importance", "_", n>> : n \in {"1", "2", "3"}}
    \cup {skill_name \o <<"_", "target">>}

C9_SkillRowsAndMarkers ==
    pc = "skills" =>
        LET rows == LinesOfKind(latex, {"row"})
            items == Flatten(Map(LAMBDA section : section.items, result.sections))
        IN  /\ Len(rows) = Len(items)
            /\ \A j \in DOMAIN rows :
                   /\ rows[j].name = <<"skill">> \o Digits(j)
                   /\ Len(rows[j].markers) = 9
                   /\ Range(rows[j].markers) = ClaimedMarkers(rows[j].name)
                   /\ Cardinality(Range(rows[j].markers)) = 9
            /\ \A i, j \in DOMAIN rows :
                   i # j => Range(rows[i].markers) \cap Range(rows[j].markers) = {}

\* Two rows over two sections.
C9_Witness ==
    /\ pc = "skills"
    /\ Len(result.sections) = 2
    /\ Len(result.sections[1].items) = 1
    /\ Len(result.sections[2].items) = 1
    /\ Len(LinesOfKind(latex, {"row"})) = 2
    /\ LinesOfKind(latex, {"row"})[2].name = <<"skill", "2">>
    /\ LinesOfKind(latex, {"row"})[2].markers[9] = <<"skill", "2", "_", "target">>

----------------------------------------------------------------------------
\* C10: a Mentee render labels every other-role reference item, every shared
\* second field and the other person of the instructions with Mentor, a Mentor
\* render with Mentee; the label is never the rendered role.
C10_LabelsAreTheOtherRole ==
    pc = "script" =>
        \A i \in DOMAIN latex :
            latex[i].k \in {"gray", "instructions"} =>
                /\ role = Mentee => latex[i].label = Mentor
                /\ role = Mentor => latex[i].label = Mentee
                /\ latex[i].label # role

\* A Mentor render with an other-role reference item and a shared second field.
C10_Witness ==
    /\ pc = "script"
    /\ role = Mentor
    /\ \E i \in DOMAIN latex :
           /\ latex[i].k = "gray"
           /\ latex[i].label = Mentee
           /\ latex[i + 3].k = "TextField"
    /\ \E i \in DOMAIN latex :
           /\ latex[i].k = "gray"
           /\ latex[i].label = Mentee
           /\ latex[i + 2].k = "raw"
           /\ latex[i + 2].raw = "\\vspace{0.15cm}"

----------------------------------------------------------------------------
\* C14: a step of the parser over a bullet appends its text to the open
\* subsection when one is open and otherwise to the open section's own items; a
\* step over a '## ' line leaves no subsection open and opens a section with no
\* subsections and no items, so a bullet right after it goes to the new
\* section's own items.
C14_BulletStep ==
    LET item_text == TextAfter(lines[idx], 2)
    IN  IF current_subsection # None
        THEN /\ current_subsection' =
                    <<[current_subsection[1] EXCEPT !.items = Append(@, item_text)]>>
             /\ UNCHANGED <<result, current_section>>
        ELSE IF current_section # None
        THEN /\ current_section' =
                    <<[current_section[1] EXCEPT !.items = Append(@, item_text)]>>
             /\ UNCHANGED <<result, current_subsection>>
        ELSE UNCHANGED <<result, current_section, current_subsection>>

C14_SectionStep ==
    /\ current_subsection' = None
    /\ current_section' # None
    /\ current_section'[1].subsections = <<>>
    /\ current_section'[1].items = <<>>

C14_BulletsGoToTheOpenContainer ==
    [][(pc = "scan" /\ idx <= Len(lines) /\ idx' = idx + 1)
           => /\ HasPrefix(lines[idx], BulletPrefix) => C14_BulletStep
              /\ HasPrefix(lines[idx], H2Prefix) => C14_SectionStep]_vars

\* A section with a subsection, then a '## ' line, then a bullet: the bullet is
\* an item of the new section and the flushed subsection has none.
C14_Witness ==
    /\ pc = "scan"
    /\ idx = 5
    /\ HasPrefix(lines[1], H2Prefix)
    /\ HasPrefix(lines[2], H3Prefix)
    /\ HasPrefix(lines[3], H2Prefix)
    /\ HasPrefix(lines[4], BulletPrefix)
    /\ current_subsection = None
    /\ current_section # None
    /\ current_section[1].items = <<TextAfter(lines[4], 2)>>
    /\ Len(result.sections) = 1
    /\ Len(result.sections[1].subsections) = 1
    /\ result.sections[1].subsections[1].items = <<>>

----------------------------------------------------------------------------
\* C15: the output of generate_latex_script does not depend on the items stored
\* directly under section headers: for either role it is the output for the
\* document with every section's own items removed, so those items give no
\* text and no field and leave the field counter alone.
WithoutDirectItems(parsed_data) ==
    [parsed_data EXCEPT !.sections =
        Map(LAMBDA section : [section EXCEPT !.items = <<>>], @)]

C15_DirectItemsRenderNothing ==
    pc = "script" => latex = generate_latex_script(WithoutDirectItems(result), role)

\* A section with a bullet of its own and a question in a subsection of the
\* reader's role: the output has exactly one field, the first.
C15_Witness ==
    /\ pc = "script"
    /\ \E i \in 1..Len(result.sections) :
           /\ result.sections[i].items # <<>>
           /\ \E j \in 1..Len(result.sections[i].subsections) :
                  /\ result.sections[i].subsections[j].header = role
                  /\ result.sections[i].subsections[j].items # <<>>
    /\ WithoutDirectItems(result) # result
    /\ FieldNames(latex) = <<FieldName(FirstFieldCounter)>>

----------------------------------------------------------------------------
\* C16: in every Document parse_markdown returns, the section headers, the
\* subsection headers and the item texts are non-empty and have no leading or
\* trailing whitespace; a heading or bullet line with nothing after its prefix
\* is ignored, so the Document is the one parsed from the lines without them.
Stripped(s) == s # <<>> /\ strip(s) = s

PrefixOnly(raw) ==
    rstrip(raw) \in { <<"#">>, <<"#", "#">>, <<"#", "#", "#">>, <<"-">> }

WithText(raw) == ~PrefixOnly(raw)

C16_NoEmptyNamesOrItems ==
    pc = "parsed" =>
        /\ \A i \in 1..Len(result.sections) :
               LET section == result.sections[i]
               IN  /\ Stripped(section.header)
                   /\ \A k \in 1..Len(section.items) : Stripped(section.items[k])
                   /\ \A j \in 1..Len(section.subsections) :
                          /\ Stripped(section.subsections[j].header)
                          /\ \A k \in 1..Len(section.subsections[j].items) :
                                 Stripped(section.subsections[j].items[k])
        /\ result = FinishParse(ParseLines(InitialParserState,
                                           SelectSeq(lines, WithText))).result

\* '## A', '### Mentee', then '## ' with no text, then a bullet: one section,
\* and the bullet is an item of the subsection that was open before the '## '.
C16_Witness ==
    /\ pc = "parsed"
    /\ Len(lines) = 4
    /\ lines[3] = H2Prefix
    /\ HasPrefix(lines[4], BulletPrefix)
    /\ Len(result.sections) = 1
    /\ result.sections[1].items = <<>>
    /\ Len(result.sections[1].subsections) = 1
    /\ result.sections[1].subsections[1].items = <<TextAfter(lines[4], 2)>>

----------------------------------------------------------------------------
\* C13: compile_latex_to_pdf always returns a boolean, and whenever it returns
\* False the desired output path holds no PDF written by the call, whole or
\* partial: it holds what it held before the call, nothing or the old PDF.
C13_FalseLeavesNoPdf ==
    pc = "returned" =>
        /\ compile.ret \in {<<TRUE>>, <<FALSE>>}
        /\ compile.ret = <<FALSE>> =>
               fs[abspath(compile.output_pdf_path)] \in {Absent, Pdf("old")}

----------------------------------------------------------------------------
\* The step s of the run printed that it generated its PDF.
Produced(s) == Message("Generated:", pdf_output_of(s)) \in Range(printed)

\* The run printed that the input p was not found.
ReportedMissing(p) == Message("ERROR: not found", p) \in Range(printed)

\* The run ended with the summary or on an input that was not found: no render
\* failed and nothing raised.
EndedOnInputs ==
    /\ pc = "exited"
    /\ \/ exit_status = <<0>>
       \/ ReportedMissing(script_md)
       \/ ReportedMissing(skills_md)

\* C11: in a run of main in which no render failed and nothing raised, a
\* missing script.md stops the two script artifacts and only them, a missing
\* skills.md stops the assessment artifact and only it, and each is reported
\* with its own error: the assessment is produced whenever skills.md is there,
\* the scripts whenever script.md is there.
C11_MissingInputsFailIndependently ==
    EndedOnInputs =>
        /\ exists(script_md) => Produced(1) /\ Produced(2)
        /\ exists(skills_md) => Produced(3)
        /\ ~exists(script_md) =>
               ReportedMissing(script_md) /\ ~Produced(1) /\ ~Produced(2)
        /\ ~exists(skills_md) => ReportedMissing(skills_md) /\ ~Produced(3)

----------------------------------------------------------------------------
\* C12: when compile_latex_to_pdf returns False in a step of main, the run ends
\* with exit status 1 after reporting the failure and where the .tex file is,
\* the .tex file of that step is on disk, the PDF of every earlier step is on
\* disk, and no step changes the PDF of a step before it.
C12_AtFailure ==
    (pc = "exited" /\ main.success = <<FALSE>>) =>
        /\ fs[abspath(tex_output_of(main.step))].kind = "tex"
        /\ \A s \in 1..Len(StepBase) :
               s < main.step => fs[abspath(pdf_output_of(s))].kind = "pdf"
        /\ exit_status = <<1>>
        /\ Say("ERROR: Failed to compile PDF") \in Range(printed)
        /\ Message("LaTeX source saved at:", tex_output_of(main.step)) \in Range(printed)

C12_EarlierPdfsUntouched ==
    \A s \in 1..Len(StepBase) :
        s < main.step =>
            fs'[abspath(pdf_output_of(s))] = fs[abspath(pdf_output_of(s))]

C12_FailedRenderKeepsTexAndEarlierPdfs ==
    [](C12_AtFailure) /\ [][C12_EarlierPdfsUntouched]_vars

\* The mentee script was rendered, then the render of the mentor script failed.
C12_Witness ==
    /\ pc = "exited"
    /\ main.success = <<FALSE>>
    /\ main.step = 2
    /\ compile.ret = <<FALSE>>
    /\ fs[abspath(pdf_output_of(1))] = Pdf("new")
    /\ fs[abspath(tex_output_of(2))].kind = "tex"
    /\ fs[abspath(tex_output_of(1))] = Absent
    /\ exit_status = <<1>>

====
